---- MODULE Spec2Model ----
(***************************************************************************)
(* A model of kernel/tls_initializer (src/lib.rs): the TlsInitializer      *)
(* factory with its two RangeMap registries, its cached data image, and    *)
(* the TlsDataImage copies it hands out.                                   *)
(*                                                                         *)
(* usize is modelled at 16 bits (TLC's integers are 32-bit), so that       *)
(* POINTER_SIZE = size_of::<usize>() = 2 and usize::MAX = 65535; every     *)
(* usize computation of the source is done modulo 2^WordBits or guarded    *)
(* against overflow as noted at the place.                                 *)
(***************************************************************************)
EXTENDS Integers, Sequences, FiniteSets

\* ---------------------------------------------------------------- bounds
MaxSections == 2     \* sections handed to the two registration calls
MaxOffset   == 1     \* link offsets of static sections are 0..MaxOffset
MaxSize     == 3     \* ordinary section sizes are 1..MaxSize
MaxAlign    == 3     \* alignments are 1..MaxAlign
MaxImages   == 2     \* TlsDataImages alive at the same time
MaxRelocs   == 1     \* in-place writes to section content (relocations)
MaxTaskWrites == 1   \* writes of a task into its own image
NumCpus     == 2     \* hardware threads, each with its TLS base register

\* ------------------------------------------------------ program constants
WordBits     == 16
POINTER_SIZE == WordBits \div 8
USIZE_MAX    == (2 ^ WordBits) - 1
WordMod      == 2 ^ WordBits

VARIABLES
    sections,                 \* the LoadedSection objects behind the Arcs, by id
    static_section_offsets,   \* RangeMap<usize, StrongSectionRefWrapper>
    end_of_static_sections,
    dynamic_section_offsets,  \* RangeMap<usize, StrongSectionRefWrapper>
    end_of_dynamic_sections,
    cache_status,
    heap,                     \* heap block -> the bytes stored in it; data_cache is
                              \* the vector stored at CacheBlock
    images,                   \* the TlsDataImages alive
    calls,                    \* per section id, the accepted call that registered it:
                              \* its kind, the offset registered or returned, and
                              \* the total_static_tls_size it was given
    last,                     \* the last call made and what it returned
    prev,                     \* <<bytes>> returned by the latest get_data, <<>> before
    since,                    \* since the latest get_data: "same" (nothing but reads),
                              \* "invalidated" (invalidate only), "changed" (a
                              \* registration or a relocation)
    nRelocs,
    nTaskWrites,
    tls_base,                 \* hardware thread -> its TLS base register
    cpu,                      \* the hardware thread the caller runs on
    set_on                    \* the image (its index in images) that the latest
                              \* set_as_current_tls_base was called on, 0 before

vars == <<sections, static_section_offsets, end_of_static_sections,
          dynamic_section_offsets, end_of_dynamic_sections, cache_status,
          heap, images, calls, last, prev, since, nRelocs,
          nTaskWrites, tls_base, cpu, set_on>>

\* what only set_as_current_tls_base and the scheduler write
hardware == <<tls_base, cpu, set_on>>

initializer == <<static_section_offsets, end_of_static_sections,
                 dynamic_section_offsets, end_of_dynamic_sections,
                 cache_status>>

\* ------------------------------------------------------------- helpers
\* (mutant) the second argument, whether or not it is the greater
Max_Second(a, b) == b

Max(a, b) == IF a >= b THEN a ELSE b
Min(a, b) == IF a <= b THEN a ELSE b
SetMin(S) == CHOOSE x \in S : \A y \in S : x <= y
Zeros(n)  == [i \in 1..n |-> 0]

\* The largest data image of sections of ordinary size; get_data is not asked
\* to build the image of a HugeSize section.
MaxImageLen == MaxOffset + MaxSize + (2 * POINTER_SIZE)
               + (MaxSections * (MaxSize + MaxAlign))
\* The kernel heap is in the upper half of the address space, where
\* addresses are canonical with their top bits set.
HeapStart   == WordMod - (16 * 64)

\* The heap: the block that holds the data_cache vector, and the blocks the
\* allocator hands out for the boxed slices of the images.
CacheBlock  == HeapStart
ImageBlocks == {HeapStart + k * MaxImageLen : k \in 1..MaxImages}
Blocks      == {CacheBlock} \cup ImageBlocks

\* (mutant) no padding is counted in front of a section
SaturatingSub_NoPadding(a, b) == 0

\* usize::saturating_sub
SaturatingSub(a, b) == IF a >= b THEN a - b ELSE 0

\* (mutant) the bitwise complement instead of the negation
WrappingNeg_OnesComplement(x) == (WordMod - 1) - x

\* usize::wrapping_neg
WrappingNeg(x) == (WordMod - x) % WordMod

\* (mutant) the start of the gap is taken as it is
NextMultipleOf_NoRounding(x, alignment) == x

\* usize::next_multiple_of (alignment >= 1)
NextMultipleOf(x, alignment) ==
    IF x % alignment = 0 THEN x ELSE x + (alignment - (x % alignment))

\* usize::to_ne_bytes on the little-endian targets the crate builds for
ToNeBytes(v) == [i \in 1..POINTER_SIZE |-> (v \div (256 ^ (i - 1))) % 256]

\* ------------------------------------------------------------ RangeMap
Range(start, end, sec) == [start |-> start, end |-> end, sec |-> sec]

\* RangeMap::contains_key
ContainsKey(map, key) == \E r \in map : r.start <= key /\ key < r.end

\* RangeMap::insert: the new range overwrites whatever part of a stored range
\* it covers.  (Neighbours are merged only when their values are equal, which
\* Arc::ptr_eq never is for two sections.)
RangeMapInsert(map, start, end, sec) ==
    {Range(r.start, Min(r.end, start), r.sec) : r \in {q \in map : q.start < start}}
    \cup {Range(Max(r.start, end), r.end, r.sec) : r \in {q \in map : q.end > end}}
    \cup {Range(start, end, sec)}

\* RangeMap::gaps(&(lo..hi)): the maximal uncovered ranges inside lo..hi,
\* as the set of their starts, and the end of the gap that starts at g.
GapStarts(map, lo, hi) ==
    {g \in {lo} \cup {r.end : r \in map} :
        lo <= g /\ g < hi /\ ~ContainsKey(map, g)}
GapEnd(map, g, hi) == SetMin({hi} \cup {r.start : r \in {q \in map : q.start > g}})

\* ------------------------------------------------------------ sections
\* A LoadedSection as this crate reads it: size, typ, virt_addr and the bytes
\* of its mapped pages (kept only for a TlsData section; a TlsBss section's
\* mapped pages are never read).
InitialData(id, size) == [j \in 1..size |-> 16 * id + j]

NewSection(id, size, typ) ==
    [size |-> size, typ |-> typ, virt_addr |-> 0,
     data |-> IF typ = "TlsData" THEN InitialData(id, size) ELSE <<>>]

\* the largest section that fits after the TLS self pointer
HugeSize == USIZE_MAX - POINTER_SIZE

\* VirtualAddress::new lives in memory_structs; every address this model
\* passes to it (a small offset, or the negation of one) is canonical.
VirtualAddressNew(addr) == <<addr>>

\* ------------------------------------- add_existing_static_tls_section
\* lines 108-109: the test that makes the call return Err
StaticRangeTaken(map, start, end) ==
    ContainsKey(map, start) \/ ContainsKey(map, end - 1)

\* (mutant) the distance to the end of the static sections, not negated
StartingOffset_NotNegated(total_static_tls_size, offset) ==
    (total_static_tls_size - offset) % WordMod

\* line 115
StartingOffset(total_static_tls_size, offset) ==
    WrappingNeg(total_static_tls_size - offset)

\* the call made last, how it returned, and (for add_new_dynamic_tls_section)
\* the size and alignment it was given
Result(op, res, size, alignment) ==
    [op |-> op, res |-> res, size |-> size, alignment |-> alignment]

Running == last.res # "panic"

\* (mutant) the static extent is raised before the range is tested
StaticRejected_ExtentRaised(end) ==
    /\ last' = Result("add_static", "Err", 0, 0)
    /\ end_of_static_sections' = Max(end_of_static_sections, end)
    /\ UNCHANGED <<sections, static_section_offsets, dynamic_section_offsets,
                   end_of_dynamic_sections, cache_status, heap, images, calls,
                   prev, since, nRelocs, nTaskWrites>>

\* lines 111, 116: `return Err(())` for the range that ends at `end`
StaticRejected(end) ==
    /\ last' = Result("add_static", "Err", 0, 0)
    /\ UNCHANGED <<sections, initializer, heap, images, calls, prev, since,
                   nRelocs, nTaskWrites>>

AddExistingStaticTlsSection(size, typ, offset, total_static_tls_size) ==
    LET id    == Len(sections) + 1
        start == offset
        end   == offset + size
        va    == VirtualAddressNew(StartingOffset(total_static_tls_size, offset))
    IN
    /\ Running
    /\ UNCHANGED hardware
    /\ Len(sections) < MaxSections
    /\ offset <= total_static_tls_size     \* `total - offset` does not underflow
    /\ IF StaticRangeTaken(static_section_offsets, start, end) \/ va = <<>>
       THEN StaticRejected(end)
       ELSE /\ sections' = Append(sections,
                   [NewSection(id, size, typ) EXCEPT !.virt_addr = va[1]])
            /\ end_of_static_sections' = Max(end_of_static_sections, end)
            /\ static_section_offsets' =
                   RangeMapInsert(static_section_offsets, start, end, id)
            /\ cache_status' = "Invalidated"
            /\ calls' = Append(calls, [kind |-> "static", offset |-> offset,
                                       total |-> total_static_tls_size])
            /\ last' = Result("add_static", "Ok", 0, 0)
            /\ since' = "changed"
            /\ UNCHANGED <<dynamic_section_offsets, end_of_dynamic_sections,
                           heap, images, prev, nRelocs, nTaskWrites>>

\* ----------------------------------------- add_new_dynamic_tls_section
\* lines 145-155: the loop over the gaps after the TLS self pointer, in
\* ascending order; <<>> is None, <<s>> is Some(s).
RECURSIVE FindGap(_, _, _, _)
FindGap(map, gaps, size, alignment) ==
    IF gaps = {} THEN <<>>
    ELSE LET g             == SetMin(gaps)
             aligned_start == NextMultipleOf(g, alignment)
         IN IF aligned_start + size <= GapEnd(map, g, USIZE_MAX)
            THEN <<aligned_start>>
            ELSE FindGap(map, gaps \ {g}, size, alignment)

\* (mutant) only the gap after the last stored range is tried
StartIndex_LastGapOnly(map, size, alignment) ==
    LET gaps == GapStarts(map, POINTER_SIZE, USIZE_MAX) IN
    FindGap(map, {g \in gaps : \A h \in gaps : h <= g}, size, alignment)

StartIndex(map, size, alignment) ==
    FindGap(map, GapStarts(map, POINTER_SIZE, USIZE_MAX), size, alignment)

\* `aligned_start + section.size` leaves usize in the gap the loop looks at:
\* a panic with overflow checks, and without them a wrapped sum that passes
\* the test and makes RangeMap::insert panic on its reversed range.
SumOverflows(map, size, alignment) ==
    /\ StartIndex(map, size, alignment) = <<>>
    /\ \E g \in GapStarts(map, POINTER_SIZE, USIZE_MAX) :
           NextMultipleOf(g, alignment) + size > USIZE_MAX

AddNewDynamicTlsSection(size, typ, alignment) ==
    LET id          == Len(sections) + 1
        start_index == StartIndex(dynamic_section_offsets, size, alignment)
        va          == IF start_index = <<>> THEN <<>>
                       ELSE VirtualAddressNew(start_index[1])
    IN
    /\ Running
    /\ UNCHANGED hardware
    /\ Len(sections) < MaxSections
    /\ IF SumOverflows(dynamic_section_offsets, size, alignment)
       THEN /\ last' = Result("add_dynamic", "panic", size, alignment)
            /\ UNCHANGED <<sections, initializer, heap, images, calls, prev,
                           since, nRelocs, nTaskWrites>>
       ELSE IF va = <<>>
       THEN /\ last' = Result("add_dynamic", "Err", size, alignment)
            /\ UNCHANGED <<sections, initializer, heap, images, calls, prev,
                           since, nRelocs, nTaskWrites>>
       ELSE LET start == start_index[1]
                end   == start + size
            IN
            /\ sections' = Append(sections,
                   [NewSection(id, size, typ) EXCEPT !.virt_addr = va[1]])
            /\ end_of_dynamic_sections' = Max(end_of_dynamic_sections, end)
            /\ dynamic_section_offsets' =
                   RangeMapInsert(dynamic_section_offsets, start, end, id)
            /\ cache_status' = "Invalidated"
            /\ calls' = Append(calls, [kind |-> "dynamic", offset |-> start, total |-> 0])
            /\ last' = Result("add_dynamic", "Ok", size, alignment)
            /\ since' = "changed"
            /\ UNCHANGED <<static_section_offsets, end_of_static_sections,
                           heap, images, prev, nRelocs, nTaskWrites>>

\* ------------------------------------------------------------ invalidate
\* (mutant) the cache status is left as it is
Invalidate_StatusKept ==
    /\ Running
    /\ UNCHANGED hardware
    /\ last' = Result("invalidate", "Ok", 0, 0)
    /\ since' = IF since = "same" THEN "invalidated" ELSE since
    /\ UNCHANGED <<sections, initializer, heap, images, calls, prev, nRelocs,
                   nTaskWrites>>

\* (mutant) the status is set to the other variant of CacheStatus
Invalidate_MarksFresh ==
    /\ Running
    /\ UNCHANGED hardware
    /\ cache_status' = "Fresh"
    /\ last' = Result("invalidate", "Ok", 0, 0)
    /\ since' = IF since = "same" THEN "invalidated" ELSE since
    /\ UNCHANGED <<sections, static_section_offsets, end_of_static_sections,
                   dynamic_section_offsets, end_of_dynamic_sections,
                   heap, images, calls, prev, nRelocs, nTaskWrites>>

Invalidate ==
    /\ Running
    /\ UNCHANGED hardware
    /\ cache_status' = "Invalidated"
    /\ last' = Result("invalidate", "Ok", 0, 0)
    /\ since' = IF since = "same" THEN "invalidated" ELSE since
    /\ UNCHANGED <<sections, static_section_offsets, end_of_static_sections,
                   dynamic_section_offsets, end_of_dynamic_sections,
                   heap, images, calls, prev, nRelocs, nTaskWrites>>

\* -------------------------------------------------------------- get_data
\* (mutant) a BSS section contributes no bytes
SectionBytes_BssEmpty(sec) ==
    IF sec.typ = "TlsData" THEN SubSeq(sec.data, 1, sec.size) ELSE <<>>

\* (mutant) a data section is filled with zeroes like a BSS section
SectionBytes_DataZeroed(sec) == Zeros(sec.size)

\* lines 199-206: the bytes one section contributes
SectionBytes(sec) ==
    IF sec.typ = "TlsData" THEN SubSeq(sec.data, 1, sec.size) ELSE Zeros(sec.size)

\* lines 188-209: copy_tls_section_data.  Walks the map in ascending order of
\* range start; gives the extended vector and the final end_of_previous_range.
RECURSIVE CopyTlsSectionData(_, _, _, _)
CopyTlsSectionData(new_data, section_offsets, end_of_previous_range, secs) ==
    IF section_offsets = {} THEN [data |-> new_data, end |-> end_of_previous_range]
    ELSE LET range == CHOOSE r \in section_offsets :
                          \A q \in section_offsets : r.start <= q.start
             num_padding_bytes == SaturatingSub(range.start, end_of_previous_range)
         IN CopyTlsSectionData(
                new_data \o Zeros(num_padding_bytes) \o SectionBytes(secs[range.sec]),
                section_offsets \ {range}, range.end, secs)

\* lines 222-239: the rebuilt data image; ok is FALSE when an assert_eq fails
NewData ==
    LET st  == CopyTlsSectionData(<<>>, static_section_offsets, 0, sections)
        dyn == CopyTlsSectionData(st.data \o Zeros(POINTER_SIZE),
                                  dynamic_section_offsets, POINTER_SIZE, sections)
    IN [data |-> dyn.data,
        ok   |-> /\ st.end = end_of_static_sections
                 /\ (end_of_dynamic_sections # 0 => dyn.end = end_of_dynamic_sections)]

\* (mutant) the address of the copy's first byte
TlsSelfPtrValue_StartOfBuffer(block, self_ptr_offset) == block % WordMod

\* line 253: the address of the self-pointer slot of the copy stored at block
TlsSelfPtrValue(block, self_ptr_offset) == (block + self_ptr_offset) % WordMod

\* (mutant) the self pointer is written at the start of the copy
WithSelfPtr_AtStart(data_copy, self_ptr_offset, tls_self_ptr_value) ==
    [i \in 1..Len(data_copy) |->
        IF i <= POINTER_SIZE THEN ToNeBytes(tls_self_ptr_value)[i] ELSE data_copy[i]]

\* lines 252-254: the copy with the self pointer written into its slot
WithSelfPtr(data_copy, self_ptr_offset, tls_self_ptr_value) ==
    [i \in 1..Len(data_copy) |->
        IF self_ptr_offset < i /\ i <= self_ptr_offset + POINTER_SIZE
        THEN ToNeBytes(tls_self_ptr_value)[i - self_ptr_offset]
        ELSE data_copy[i]]

\* the heap blocks the images hold
Allocated == {images[i]._data[1] : i \in {k \in DOMAIN images : images[k]._data # <<>>}}

\* (mutant) the image is handed the data_cache's own buffer
DataCopyBlock_CacheItself(fresh_block) == CacheBlock

\* line 246: the block the boxed copy of the data_cache is stored in, given
\* the free block the allocator hands out
DataCopyBlock(fresh_block) == fresh_block

\* (mutant) room for the self pointer is asked for also when there is no section
RequiredCapacity_PointerAlways(total_section_size) ==
    total_section_size + POINTER_SIZE

\* line 182
RequiredCapacity(total_section_size) ==
    IF total_section_size > 0 THEN total_section_size + POINTER_SIZE ELSE 0

\* (mutant) the walk over the static registry takes its sections out of it
CacheFresh_StaticTaken ==
    /\ cache_status' = "Fresh"
    /\ static_section_offsets' = {}
    /\ UNCHANGED <<sections, end_of_static_sections, dynamic_section_offsets,
                   end_of_dynamic_sections, calls, nRelocs, nTaskWrites>>

\* lines 211-243: what get_data has written of the initializer, besides the
\* data_cache, when it reaches line 246
CacheFresh ==
    /\ cache_status' = "Fresh"
    /\ UNCHANGED <<sections, static_section_offsets, end_of_static_sections,
                   dynamic_section_offsets, end_of_dynamic_sections, calls,
                   nRelocs, nTaskWrites>>

GetData(fresh_block) ==
    LET total_section_size == end_of_static_sections + end_of_dynamic_sections
        required_capacity  == RequiredCapacity(total_section_size)
        rebuild  == cache_status = "Invalidated"
        new_data == NewData
        \* self.data_cache once lines 211-243 are done
        data_cache == IF rebuild THEN new_data.data ELSE heap[CacheBlock]
        copy_block == DataCopyBlock(fresh_block)
        self_ptr_offset    == end_of_static_sections
        slot_in_bounds     == self_ptr_offset + POINTER_SIZE <= Len(data_cache)
        tls_self_ptr_value == TlsSelfPtrValue(copy_block, self_ptr_offset)
        data_copy == WithSelfPtr(data_cache, self_ptr_offset, tls_self_ptr_value)
        heap1     == [heap EXCEPT ![CacheBlock] = data_cache]
    IN
    /\ Running
    /\ UNCHANGED hardware
    /\ Len(images) < MaxImages
    /\ required_capacity <= MaxImageLen
    /\ fresh_block \notin Allocated
    /\ IF required_capacity = 0
       THEN /\ images' = Append(images, [_data |-> <<>>, ptr |-> 0])
            /\ prev' = << <<>> >>
            /\ last' = Result("get_data", "None", 0, 0)
            /\ since' = "same"
            /\ UNCHANGED <<sections, initializer, heap, calls, nRelocs, nTaskWrites>>
       ELSE IF rebuild /\ ~new_data.ok
       THEN \* an assert_eq of lines 227, 238 fails
            /\ last' = Result("get_data", "panic", 0, 0)
            /\ UNCHANGED <<sections, initializer, heap, images, calls, prev,
                           since, nRelocs, nTaskWrites>>
       ELSE /\ CacheFresh
            /\ IF ~slot_in_bounds
               THEN \* line 260
                    /\ heap' = heap1
                    /\ last' = Result("get_data", "panic", 0, 0)
                    /\ UNCHANGED <<images, prev, since>>
               ELSE /\ heap' = [heap1 EXCEPT ![copy_block] = data_copy]
                    /\ images' = Append(images,
                           [_data |-> <<copy_block>>, ptr |-> tls_self_ptr_value])
                    /\ prev' = <<data_copy>>
                    /\ last' = Result("get_data",
                                      IF rebuild THEN "Rebuilt" ELSE "Cached", 0, 0)
                    /\ since' = "same"

\* ------------------------------------------------------- the environment
\* A relocation rewrites the content of a TlsData section in place.
RelocByte(old) == (old + 128) % 256

Relocate(id) ==
    /\ Running
    /\ UNCHANGED hardware
    /\ nRelocs < MaxRelocs
    /\ sections[id].typ = "TlsData"
    /\ sections' = [sections EXCEPT
           ![id].data = [j \in DOMAIN sections[id].data |-> RelocByte(sections[id].data[j])]]
    /\ nRelocs' = nRelocs + 1
    /\ last' = Result("env", "Ok", 0, 0)
    /\ since' = "changed"
    /\ UNCHANGED <<initializer, heap, images, calls, prev, nTaskWrites>>

\* The task an image belongs to writes over its TLS area.
TaskByte(old) == (old + 85) % 256

TaskWrite(i) ==
    LET block == images[i]._data[1] IN
    /\ Running
    /\ UNCHANGED hardware
    /\ nTaskWrites < MaxTaskWrites
    /\ images[i]._data # <<>>
    /\ heap' = [heap EXCEPT ![block] = [j \in DOMAIN heap[block] |-> TaskByte(heap[block][j])]]
    /\ nTaskWrites' = nTaskWrites + 1
    /\ last' = Result("env", "Ok", 0, 0)
    /\ UNCHANGED <<sections, initializer, images, calls, prev, since, nRelocs>>

\* The task an image belongs to ends and its TlsDataImage is dropped.
DropImage(i) ==
    /\ Running
    /\ UNCHANGED hardware
    /\ images' = [k \in 1..(Len(images) - 1) |->
                      IF k < i THEN images[k] ELSE images[k + 1]]
    /\ heap' = IF images[i]._data = <<>> THEN heap
               ELSE [heap EXCEPT ![images[i]._data[1]] = <<>>]
    /\ last' = Result("env", "Ok", 0, 0)
    /\ UNCHANGED <<sections, initializer, calls, prev, since, nRelocs, nTaskWrites>>

\* --------------------------------------------- set_as_current_tls_base
Cpus == 1..NumCpus

\* x86_64::VirtAddr::new_truncate: the top quarter of the word (bits 48-63 of
\* 64) is overwritten with copies of the highest bit below it (bit 47).
CanonicalBits == (3 * WordBits) \div 4
NewTruncate(addr) ==
    LET low == addr % (2 ^ CanonicalBits) IN
    IF low >= 2 ^ (CanonicalBits - 1)
    THEN low + (WordMod - (2 ^ CanonicalBits))
    ELSE low

\* (mutant) the top bits are cleared and not sign-extended
TlsBaseValue_NotSignExtended(ptr) == ptr % (2 ^ CanonicalBits)

\* line 291: the value written to FsBase.  (Line 294, for aarch64, writes
\* self.ptr as it is.)
TlsBaseValue(ptr) == NewTruncate(ptr)

\* lines 289-295, called on images[i] by the code running on hardware thread cpu
SetAsCurrentTlsBase(i) ==
    /\ Running
    /\ tls_base' = [tls_base EXCEPT ![cpu] = TlsBaseValue(images[i].ptr)]
    /\ set_on' = i
    /\ last' = Result("set_as_current_tls_base", "Ok", 0, 0)
    /\ UNCHANGED <<sections, initializer, heap, images, calls, prev, since,
                   nRelocs, nTaskWrites, cpu>>

\* The scheduler moves the caller to hardware thread c.
Migrate(c) ==
    /\ Running
    /\ c # cpu
    /\ cpu' = c
    /\ last' = Result("env", "Ok", 0, 0)
    /\ UNCHANGED <<sections, initializer, heap, images, calls, prev, since,
                   nRelocs, nTaskWrites, tls_base, set_on>>

\* ------------------------------------------------------- specification
SectionTypes == {"TlsData", "TlsBss"}
StaticTotals == {MaxOffset, MaxOffset + MaxSize}

\* TlsInitializer::empty(), lines 67-77
Init ==
    /\ sections = <<>>
    /\ static_section_offsets = {}
    /\ end_of_static_sections = 0
    /\ dynamic_section_offsets = {}
    /\ end_of_dynamic_sections = 0
    /\ cache_status = "Invalidated"
    /\ heap = [b \in Blocks |-> <<>>]
    /\ images = <<>>
    /\ calls = <<>>
    /\ last = Result("empty", "Ok", 0, 0)
    /\ prev = <<>>
    /\ since = "same"
    /\ nRelocs = 0
    /\ nTaskWrites = 0
    /\ tls_base = [c \in Cpus |-> 0]
    /\ cpu = 1
    /\ set_on = 0

Next ==
    \/ \E size \in 1..MaxSize, typ \in SectionTypes, offset \in 0..MaxOffset,
          total \in StaticTotals :
            AddExistingStaticTlsSection(size, typ, offset, total)
    \/ \E size \in 1..MaxSize, typ \in SectionTypes, alignment \in 1..MaxAlign :
            AddNewDynamicTlsSection(size, typ, alignment)
    \/ \E alignment \in 1..MaxAlign :
            AddNewDynamicTlsSection(HugeSize, "TlsBss", alignment)
    \/ Invalidate
    \/ \E fresh_block \in ImageBlocks : GetData(fresh_block)
    \/ \E id \in DOMAIN sections : Relocate(id)
    \/ \E i \in DOMAIN images : TaskWrite(i)
    \/ \E i \in DOMAIN images : DropImage(i)

Spec == Init /\ [][Next]_vars

\* The calls of the worked example: one data section the size of a pointer
\* registered at link offset POINTER_SIZE of a static area of two pointers,
\* and one data section of half a pointer allocated dynamically with the
\* alignment of a pointer.  (On a 64-bit target these are 8 at 8 of 16, and 4
\* aligned to 8.)
ExampleTotal   == 2 * POINTER_SIZE
ExampleOffset  == POINTER_SIZE
ExampleSize    == POINTER_SIZE
ExampleDynSize == POINTER_SIZE \div 2
ExampleAlign   == POINTER_SIZE

NextExample ==
    \/ AddExistingStaticTlsSection(ExampleSize, "TlsData", ExampleOffset, ExampleTotal)
    \/ AddNewDynamicTlsSection(ExampleDynSize, "TlsData", ExampleAlign)
    \/ Invalidate
    \/ \E fresh_block \in ImageBlocks : GetData(fresh_block)
    \/ \E id \in DOMAIN sections : Relocate(id)
    \/ \E i \in DOMAIN images : TaskWrite(i)
    \/ \E i \in DOMAIN images : DropImage(i)

SpecExample == Init /\ [][NextExample]_vars

\* The calls with the TLS base registers: images of zero-filled sections of
\* one byte are generated, set as the TLS base of a hardware thread and
\* dropped, while the scheduler moves the caller between hardware threads.
NextTlsBase ==
    \/ \E offset \in 0..MaxOffset :
            AddExistingStaticTlsSection(1, "TlsBss", offset, MaxOffset + 1)
    \/ \E alignment \in 1..MaxAlign : AddNewDynamicTlsSection(1, "TlsBss", alignment)
    \/ Invalidate
    \/ \E fresh_block \in ImageBlocks : GetData(fresh_block)
    \/ \E i \in DOMAIN images : DropImage(i)
    \/ \E i \in DOMAIN images : SetAsCurrentTlsBase(i)
    \/ \E c \in Cpus : Migrate(c)

SpecTlsBase == Init /\ [][NextTlsBase]_vars

\* ================================================================ claims
\* What the claims speak of.
Returned      == last.op = "get_data" /\ last.res \in {"Rebuilt", "Cached"}
LatestImage   == images[Len(images)]
LatestBlock   == LatestImage._data[1]
LatestBytes   == heap[LatestBlock]
InSlot(i)     == end_of_static_sections < i /\ i <= end_of_static_sections + POINTER_SIZE
RECURSIVE FromNeBytes(_)
FromNeBytes(bytes) ==
    IF bytes = <<>> THEN 0 ELSE Head(bytes) + 256 * FromNeBytes(Tail(bytes))
StaticIds     == {id \in DOMAIN calls : calls[id].kind = "static"}
DynamicIds    == {id \in DOMAIN calls : calls[id].kind = "dynamic"}
\* the image index (from 0) of the first byte of an accepted section
Place(id)     == IF calls[id].kind = "static" THEN calls[id].offset
                 ELSE end_of_static_sections + calls[id].offset
Covers(id, i) == Place(id) < i /\ i <= Place(id) + sections[id].size
ContentAt(id, j) == IF sections[id].typ = "TlsData" THEN sections[id].data[j] ELSE 0
Intersects(r, start, end) == r.start < end /\ start < r.end

\* C1: add_existing_static_tls_section returns an error for every call whose
\* range [offset, offset+size) intersects a range stored in the static
\* registry, so an accepted call's range intersects none of them.
C1_IntersectingStaticRejected ==
    [][(last'.op = "add_static" /\ last'.res = "Ok") =>
          LET id == Len(sections') IN
          \A r \in static_section_offsets :
              ~Intersects(r, calls'[id].offset, calls'[id].offset + sections'[id].size)]_vars

\* C2: the image get_data builds after accepted registrations holds every
\* accepted section's bytes at the section's place, and zero at every byte
\* that no accepted section covers and that is outside the self-pointer slot.
C2_ImageHoldsEveryAcceptedSection ==
    (Returned /\ (last.res = "Rebuilt" \/ nRelocs = 0)) =>
        /\ \A id \in DOMAIN sections :
               \A j \in 1..sections[id].size :
                   /\ Place(id) + j <= Len(LatestBytes)
                   /\ LatestBytes[Place(id) + j] = ContentAt(id, j)
        /\ \A i \in 1..Len(LatestBytes) :
               (~InSlot(i) /\ \A id \in DOMAIN sections : ~Covers(id, i))
                   => LatestBytes[i] = 0

\* The same for the sections the registries hold when the image is built.
StoredIds == {r.sec : r \in static_section_offsets \cup dynamic_section_offsets}
ImageHoldsStoredSections(bytes) ==
    /\ \A id \in StoredIds :
           \A j \in 1..sections[id].size :
               /\ Place(id) + j <= Len(bytes)
               /\ (~InSlot(Place(id) + j) => bytes[Place(id) + j] = ContentAt(id, j))
    /\ \A i \in 1..Len(bytes) :
           (~InSlot(i) /\ \A id \in StoredIds : ~Covers(id, i)) => bytes[i] = 0

C2_StoredSections ==
    (Returned /\ (last.res = "Rebuilt" \/ nRelocs = 0)) =>
        ImageHoldsStoredSections(LatestBytes)

\* C3: the pointer value of every image with a buffer is the address of byte
\* end_of_static_sections of that buffer, and the word stored there is that
\* address, on the rebuild path and on the cached path.
C3_SelfPointer ==
    Returned =>
        /\ LatestImage.ptr = LatestBlock + end_of_static_sections
        /\ FromNeBytes(SubSeq(LatestBytes, end_of_static_sections + 1,
                              end_of_static_sections + POINTER_SIZE))
               = LatestBlock + end_of_static_sections

C3_Witness ==
    /\ Returned /\ last.res = "Cached"
    /\ end_of_static_sections > 0 /\ end_of_dynamic_sections > 0
    /\ Len(images) = 2 /\ images[1]._data # <<>>

\* C4: every buffer get_data returns is a block of its own, neither the
\* data_cache's nor another image's, get_data leaves the bytes of the cached
\* layout it copies and of the other images as they are, and a task's write
\* into its image changes neither the data_cache nor another image, so an
\* image generated later from the cache does not show it.
ImageBlocksOf(imgs) == {imgs[i]._data[1] : i \in {k \in DOMAIN imgs : imgs[k]._data # <<>>}}
GeneratedStep == last'.op = "get_data" /\ last'.res \in {"Rebuilt", "Cached"}
TaskWriteStep == nTaskWrites' = nTaskWrites + 1

C4_FreshCopy ==
    [][/\ GeneratedStep =>
            LET block == images'[Len(images')]._data[1] IN
            /\ block # CacheBlock
            /\ block \notin ImageBlocksOf(images)
            /\ \A b \in ImageBlocksOf(images) : heap'[b] = heap[b]
            /\ last'.res = "Cached" => heap'[CacheBlock] = heap[CacheBlock]
            /\ \A i \in 1..Len(heap'[block]) :
                   ~InSlot(i) => heap'[block][i] = heap'[CacheBlock][i]
       /\ TaskWriteStep =>
            /\ heap'[CacheBlock] = heap[CacheBlock]
            /\ Cardinality({b \in Blocks : heap'[b] # heap[b]}) = 1
       /\ Cardinality(ImageBlocksOf(images'))
              = Cardinality({k \in DOMAIN images' : images'[k]._data # <<>>})
      ]_vars

\* an image generated from the cache after a task wrote over the other image
C4_Witness ==
    /\ Returned /\ last.res = "Cached" /\ nTaskWrites = 1
    /\ Len(images) = 2 /\ images[1]._data # <<>>
    /\ \E i \in 1..Len(LatestBytes) :
           ~InSlot(i) /\ heap[images[1]._data[1]][i] # LatestBytes[i]

\* C5: two get_data calls with no registration and no change of section
\* content between them return buffers of the same length that are equal
\* outside the self-pointer slot.
SameOutsideSlot(a, b) ==
    /\ Len(a) = Len(b)
    /\ \A i \in 1..Len(a) : ~InSlot(i) => a[i] = b[i]
AnyGetDataStep == last'.op = "get_data" /\ last'.res # "panic"

C5_SameUnlessChanged ==
    [][(AnyGetDataStep /\ prev # <<>> /\ since # "changed")
          => SameOutsideSlot(prev[1], prev'[1])]_vars

\* C5 as amended: ... with no registration, no change of section content and
\* no invalidate() between them ...
C5_SameWhenNothingBetween ==
    [][(AnyGetDataStep /\ prev # <<>> /\ since = "same")
          => SameOutsideSlot(prev[1], prev'[1])]_vars

\* the second of two calls, the first of which rebuilt the image, with only a
\* task's write between them
C5_Witness ==
    /\ Returned /\ last.res = "Cached" /\ since = "same"
    /\ Len(images) = 2 /\ images[1]._data # <<>> /\ nTaskWrites = 1
    /\ end_of_static_sections > 0

\* C6: add_new_dynamic_tls_section is first-fit.  A gap of the dynamic
\* registry starts at a free offset g >= POINTER_SIZE that is POINTER_SIZE or
\* the end of a stored range; a section fits it when, placed at the least
\* multiple of the alignment that is >= g, it ends within usize::MAX and no
\* stored range intersects [g, end).  A call that returns Ok returns that
\* multiple for the lowest gap that fits and stores the section there; a call
\* that returns at all returns Err exactly when no gap fits.
IsGapStart(map, g) ==
    /\ g >= POINTER_SIZE /\ g < USIZE_MAX
    /\ \A r \in map : ~(r.start <= g /\ g < r.end)
    /\ (g = POINTER_SIZE \/ \E r \in map : r.end = g)
RoundUp(g, alignment) == CHOOSE m \in g..(g + alignment - 1) : m % alignment = 0
FitsGap(map, g, size, alignment) ==
    /\ RoundUp(g, alignment) + size <= USIZE_MAX
    /\ \A r \in map : ~Intersects(r, g, RoundUp(g, alignment) + size)
GapsOf(map) == {g \in {POINTER_SIZE} \cup {r.end : r \in map} : IsGapStart(map, g)}

C8_ErrorLeavesUnchanged ==
    [][(last'.op \in {"add_static", "add_dynamic"} /\ last'.res = "Err") =>
          /\ static_section_offsets' = static_section_offsets
          /\ dynamic_section_offsets' = dynamic_section_offsets
          /\ end_of_static_sections' = end_of_static_sections
          /\ end_of_dynamic_sections' = end_of_dynamic_sections
          /\ cache_status' = cache_status
          /\ heap'[CacheBlock] = heap[CacheBlock]
          /\ sections' = sections
      ]_vars

\* a static registration rejected while the cache is Fresh and the static
\* extent is below the largest end a range can have
C8_Witness ==
    /\ last.op = "add_static" /\ last.res = "Err"
    /\ cache_status = "Fresh"
    /\ end_of_static_sections < MaxOffset + MaxSize

\* a dynamic allocation rejected
C8_DynamicWitness ==
    /\ last.op = "add_dynamic" /\ last.res = "Err"

\* C9: invalidate() leaves the cache Invalidated; a get_data that finds the
\* cache Invalidated on a non-empty initializer rebuilds the layout from the
\* bytes the stored sections have at that moment; a get_data that finds the
\* cache Fresh copies the cached layout and reads no section content.
NonEmpty == end_of_static_sections + end_of_dynamic_sections > 0

C9_StaleWitness ==
    /\ Returned /\ last.res = "Cached"
    /\ ~ImageHoldsStoredSections(LatestBytes)

\* C10: in every image generated after a static section was accepted, the
\* address of the self-pointer slot plus the section's virtual offset, modulo
\* 2^WordBits, is the address of the image byte at the section's link offset,
\* whatever total_static_tls_size the registration was given.
AddressOf(block, index) == block + index
PointsAtLinkOffset(id) ==
    (LatestImage.ptr + sections[id].virt_addr) % WordMod
        = AddressOf(LatestBlock, calls[id].offset)

C10_VirtualOffsetFromSelfPtr ==
    Returned => \A id \in StaticIds : PointsAtLinkOffset(id)

\* C10 as amended: ... exactly for the sections whose registration was given
\* a total_static_tls_size equal to end_of_static_sections at the time the
\* image is generated.
C10_WhenTotalIsStaticExtent ==
    Returned => \A id \in StaticIds :
        PointsAtLinkOffset(id) <=> calls[id].total = end_of_static_sections

\* an image of two static sections registered with the static extent as
\* their total, one of them not at link offset 0
C10_Witness ==
    /\ Returned
    /\ Cardinality(StaticIds) = 2
    /\ \A id \in StaticIds : calls[id].total = end_of_static_sections
    /\ \E id \in StaticIds : calls[id].offset > 0 /\ PointsAtLinkOffset(id)

\* C11: in the worked example (in units of the pointer size: total static
\* size 2, a data section of 1 at link offset 1, a dynamic data section of
\* 1/2 with alignment 1) the static section gets virtual offset -POINTER_SIZE
\* and the dynamic section offset POINTER_SIZE, and the image has the static
\* content at bytes [0, P), the self-pointer slot, holding its own address, at
\* [P, 2P), and the dynamic content from byte 2P on.
InExample == Cardinality(StaticIds) = 1 /\ Cardinality(DynamicIds) = 1
ExampleStatic  == CHOOSE id \in StaticIds : TRUE
ExampleDynamic == CHOOSE id \in DynamicIds : TRUE
ExampleOffsets ==
    /\ sections[ExampleStatic].virt_addr = WordMod - POINTER_SIZE
    /\ sections[ExampleDynamic].virt_addr = POINTER_SIZE
    /\ calls[ExampleDynamic].offset = POINTER_SIZE
\* the image has the bytes of section id from byte `from` on
ContentFrom(id, from) ==
    \A j \in 1..sections[id].size :
        /\ from + j <= Len(LatestBytes)
        /\ LatestBytes[from + j] = ContentAt(id, j)
\* the image has at bytes [from, from + POINTER_SIZE) the address of byte `from`
SlotFrom(from) ==
    /\ from + POINTER_SIZE <= Len(LatestBytes)
    /\ FromNeBytes(SubSeq(LatestBytes, from + 1, from + POINTER_SIZE))
           = AddressOf(LatestBlock, from)
    /\ LatestImage.ptr = AddressOf(LatestBlock, from)
ExampleImage == InExample /\ Returned /\ last.res = "Rebuilt"

C11_WorkedExample ==
    /\ InExample => ExampleOffsets
    /\ ExampleImage =>
           /\ ContentFrom(ExampleStatic, 0)
           /\ SlotFrom(POINTER_SIZE)
           /\ ContentFrom(ExampleDynamic, 2 * POINTER_SIZE)

\* C11 as amended: ... the image has zero padding at bytes [0, P), the static
\* content at [P, 2P), the self-pointer slot, holding its own address, at
\* [2P, 3P), and the dynamic content from byte 3P on, where it ends.
C11_WorkedExampleWithPadding ==
    /\ InExample => ExampleOffsets
    /\ ExampleImage =>
           /\ \A i \in 1..POINTER_SIZE : LatestBytes[i] = 0
           /\ ContentFrom(ExampleStatic, POINTER_SIZE)
           /\ SlotFrom(2 * POINTER_SIZE)
           /\ ContentFrom(ExampleDynamic, 3 * POINTER_SIZE)
           /\ Len(LatestBytes) = (3 * POINTER_SIZE) + ExampleDynSize

\* the image of the example, rebuilt after a relocation of one of its sections
C11_Witness ==
    /\ ExampleImage /\ nRelocs = 1
    /\ \A i \in (POINTER_SIZE + 1)..(2 * POINTER_SIZE) : LatestBytes[i] # 0

\* C12: get_data returns the degenerate image (no buffer, pointer value 0)
\* exactly when end_of_static_sections + end_of_dynamic_sections is zero, so
\* whenever no registration has succeeded, and then leaves the cache status
\* and the cached layout as they were.
Degenerate == [_data |-> <<>>, ptr |-> 0]

C12_DegenerateImage ==
    [][AnyGetDataStep =>
          LET image == images'[Len(images')] IN
          /\ (image = Degenerate) <=>
                 (end_of_static_sections + end_of_dynamic_sections = 0)
          /\ (image._data = <<>>) <=> (image = Degenerate)
          /\ calls = <<>> => image = Degenerate
          /\ image = Degenerate =>
                 /\ cache_status' = cache_status
                 /\ heap' = heap
      ]_vars

\* two degenerate images
C12_Witness ==
    /\ last.op = "get_data" /\ Len(images) = 2
    /\ images[1] = Degenerate /\ images[2] = Degenerate

\* a degenerate image, and an image with a buffer generated after it
C12_AfterWitness ==
    /\ Returned /\ Len(images) = 2
    /\ images[1] = Degenerate /\ images[2] # Degenerate

\* C13: the virtual offset stored in every section that a static registration
\* with offset <= total_static_tls_size accepted is the two's-complement
\* negation of (total_static_tls_size - offset), that is
\* (2^WordBits - (total_static_tls_size - offset)) mod 2^WordBits, and it is 0
\* when offset = total_static_tls_size.
DistanceToEnd(id) == calls[id].total - calls[id].offset

C13_VirtualOffsetIsNegation ==
    \A id \in StaticIds :
        /\ calls[id].offset <= calls[id].total
        /\ sections[id].virt_addr
               = ((2 ^ WordBits) - DistanceToEnd(id)) % (2 ^ WordBits)
        /\ (sections[id].virt_addr + DistanceToEnd(id)) % (2 ^ WordBits) = 0
        /\ DistanceToEnd(id) = 0 => sections[id].virt_addr = 0

\* one section registered at the end of the static area and one before it
C13_Witness ==
    /\ \E id \in StaticIds : DistanceToEnd(id) = 0
    /\ \E id \in StaticIds : DistanceToEnd(id) > 0 /\ sections[id].virt_addr > 0

\* C14: a TLS base register changes only in a set_as_current_tls_base call;
\* after set_as_current_tls_base on an image the register of the hardware
\* thread the call ran on holds that image's pointer value (0 for the
\* degenerate image) and the other registers are as before; no registration,
\* invalidate or get_data call changes a register.
SetTlsBaseStep == last'.op = "set_as_current_tls_base"

C14_TlsBaseRegister ==
    [][/\ SetTlsBaseStep =>
              /\ tls_base'[cpu] = images[set_on'].ptr
              /\ images[set_on'] = Degenerate => tls_base'[cpu] = 0
              /\ \A c \in Cpus \ {cpu} : tls_base'[c] = tls_base[c]
       /\ ~SetTlsBaseStep => tls_base' = tls_base
       /\ last'.op \in {"add_static", "add_dynamic", "invalidate", "get_data"}
              => tls_base' = tls_base
      ]_vars

\* the two hardware threads have the pointer values of two images with
\* buffers as their TLS bases
C14_Witness ==
    /\ last.op = "set_as_current_tls_base"
    /\ Len(images) = 2 /\ images[1].ptr # 0 /\ images[2].ptr # 0
    /\ \E c \in Cpus : tls_base[c] = images[1].ptr
    /\ \E c \in Cpus : tls_base[c] = images[2].ptr

\* the degenerate image set as the TLS base of one hardware thread while the
\* other has an image with a buffer
C14_DegenerateWitness ==
    /\ last.op = "set_as_current_tls_base"
    /\ images[set_on] = Degenerate
    /\ tls_base[cpu] = 0
    /\ \E c \in Cpus \ {cpu} : tls_base[c] # 0

\* C15: the cache status is Invalidated in a new initializer and right after
\* every successful static registration, every successful dynamic allocation
\* and every invalidate(); it becomes Fresh only in a get_data call that
\* rebuilds the layout; so in a state with status Fresh the last call was no
\* successful registration and no invalidate(), and since the latest get_data
\* there has been no invalidate() and no change but relocations.
Registered  == last.op \in {"add_static", "add_dynamic"} /\ last.res = "Ok"
InvalidateCalled == last.op = "invalidate"

C15_CacheStatus ==
    /\ cache_status = "Invalidated"
    /\ [][/\ Registered' => cache_status' = "Invalidated"
          /\ InvalidateCalled' => cache_status' = "Invalidated"
          /\ (cache_status' = "Fresh" /\ cache_status # "Fresh") =>
                 /\ last'.op = "get_data" /\ last'.res \in {"Rebuilt", "panic"}
                 /\ heap'[CacheBlock] = NewData.data
          /\ cache_status' = "Fresh" =>
                 /\ ~Registered' /\ ~InvalidateCalled'
                 /\ since' = "same" \/ (since' = "changed" /\ nRelocs' > 0)
          ]_vars

\* the status is still Fresh after a relocation and a rejected registration
C15_Witness ==
    /\ cache_status = "Fresh"
    /\ last.op = "add_static" /\ last.res = "Err"
    /\ since = "changed" /\ nRelocs = 1

\* C16: in every reachable state the static registry holds, at its full
\* registered range, every section a static registration accepted, and the
\* dynamic registry every section a dynamic allocation accepted.
RegisteredRange(id) ==
    Range(calls[id].offset, calls[id].offset + sections[id].size, id)

C16_RegistriesKeepAcceptedSections ==
    /\ \A id \in StaticIds : RegisteredRange(id) \in static_section_offsets
    /\ \A id \in DynamicIds : RegisteredRange(id) \in dynamic_section_offsets

\* The dynamic half of it, and that what the static registry holds is held at
\* its full range.
C16_DynamicKept ==
    /\ \A id \in DynamicIds : RegisteredRange(id) \in dynamic_section_offsets
    /\ \A r \in static_section_offsets : r = RegisteredRange(r.sec)

\* C17: whenever get_data rebuilds the layout, the rebuilt buffer, and the
\* image copied from it, has length exactly
\* (end_of_static_sections + end_of_dynamic_sections) + POINTER_SIZE, with or
\* without dynamic sections.
RebuildStep ==
    last'.op = "get_data" /\ cache_status = "Invalidated" /\ cache_status' = "Fresh"
RebuiltLengthIs(n) ==
    /\ Len(heap'[CacheBlock]) = n
    /\ last'.res = "Rebuilt" => Len(prev'[1]) = n

C17_RebuiltLength ==
    [][RebuildStep =>
          RebuiltLengthIs((end_of_static_sections + end_of_dynamic_sections)
                          + POINTER_SIZE)]_vars

\* C17 as amended: ... has length exactly end_of_static_sections +
\* POINTER_SIZE when the dynamic registry is empty, and exactly
\* end_of_static_sections + end_of_dynamic_sections when it is not.
C17_RebuiltLengthByCase ==
    [][RebuildStep =>
          /\ dynamic_section_offsets = {} <=> end_of_dynamic_sections = 0
          /\ RebuiltLengthIs(IF dynamic_section_offsets = {}
                             THEN end_of_static_sections + POINTER_SIZE
                             ELSE end_of_static_sections + end_of_dynamic_sections)
      ]_vars

\* an image rebuilt from a static and a dynamic section, as long as the two
\* extents together
C17_Witness ==
    /\ Returned /\ last.res = "Rebuilt"
    /\ static_section_offsets # {} /\ dynamic_section_offsets # {}
    /\ Len(LatestBytes) = end_of_static_sections + end_of_dynamic_sections

\* an image rebuilt from static sections only
C17_StaticOnlyWitness ==
    /\ Returned /\ last.res = "Rebuilt"
    /\ static_section_offsets # {} /\ dynamic_section_offsets = {}
    /\ Len(LatestBytes) = end_of_static_sections + POINTER_SIZE

\* C18: in every reachable state end_of_static_sections is the greatest end
\* of the ranges static registrations were accepted with (0 if none) and
\* end_of_dynamic_sections the greatest end of the ranges dynamic allocations
\* were accepted with (0 if none); each is the end of the last range of its
\* registry in offset order; and neither ever decreases.
EndsAccepted(ids) == {calls[id].offset + sections[id].size : id \in ids}
Greatest(S) == IF S = {} THEN 0 ELSE CHOOSE x \in S : \A y \in S : y <= x
EndOfLastRange(map) ==
    IF map = {} THEN 0
    ELSE (CHOOSE r \in map : \A q \in map : q.start <= r.start).end

C18_Extents ==
    /\ [](/\ end_of_static_sections = Greatest(EndsAccepted(StaticIds))
          /\ end_of_dynamic_sections = Greatest(EndsAccepted(DynamicIds))
          /\ end_of_static_sections = EndOfLastRange(static_section_offsets)
          /\ end_of_dynamic_sections = EndOfLastRange(dynamic_section_offsets))
    /\ [][/\ end_of_static_sections' >= end_of_static_sections
          /\ end_of_dynamic_sections' >= end_of_dynamic_sections]_vars

\* a static section accepted below an earlier one: the extent stays the end
\* of the earlier one
C18_Witness ==
    /\ last.op = "add_static" /\ last.res = "Ok"
    /\ Cardinality(StaticIds) = 2
    /\ calls[2].offset + sections[2].size < end_of_static_sections

\* the same for a dynamic section placed in a gap before an earlier one
C18_DynamicWitness ==
    /\ last.op = "add_dynamic" /\ last.res = "Ok"
    /\ Cardinality(DynamicIds) = 2
    /\ calls[2].offset + sections[2].size < end_of_dynamic_sections

\* C19: get_data leaves both registries, both extent counters and every
\* section's virtual offset as they were, and of the initializer changes only
\* the cached layout and the cache status; a static registration leaves the
\* dynamic registry and end_of_dynamic_sections as they were, and a dynamic
\* allocation the static registry and end_of_static_sections.
C19_Frames ==
    [][/\ last'.op = "get_data" =>
              /\ static_section_offsets' = static_section_offsets
              /\ dynamic_section_offsets' = dynamic_section_offsets
              /\ end_of_static_sections' = end_of_static_sections
              /\ end_of_dynamic_sections' = end_of_dynamic_sections
              /\ sections' = sections
       /\ last'.op = "add_static" =>
              /\ dynamic_section_offsets' = dynamic_section_offsets
              /\ end_of_dynamic_sections' = end_of_dynamic_sections
              /\ \A id \in DynamicIds : sections'[id] = sections[id]
       /\ last'.op = "add_dynamic" =>
              /\ static_section_offsets' = static_section_offsets
              /\ end_of_static_sections' = end_of_static_sections
              /\ \A id \in StaticIds : sections'[id] = sections[id]
      ]_vars

\* a static section registered after a dynamic one, and an image rebuilt from
\* the two
C19_Witness ==
    /\ Returned /\ last.res = "Rebuilt" /\ cache_status = "Fresh"
    /\ calls # <<>> /\ calls[1].kind = "dynamic"
    /\ static_section_offsets # {}

\* C20: with section sizes >= 1, alignments >= 1 and no integer overflow, no
\* fatal check of get_data fires: the last static range ends at
\* end_of_static_sections, the last dynamic range at end_of_dynamic_sections
\* when that is not zero, and the self-pointer slot lies inside the buffer
\* that get_data copies, the rebuilt one and the one of a Fresh cache.
SlotInside(buffer) == end_of_static_sections + POINTER_SIZE <= Len(buffer)

C20_NoFatalCheck ==
    /\ last.res = "panic" => last.op = "add_dynamic"
    /\ EndOfLastRange(static_section_offsets) = end_of_static_sections
    /\ end_of_dynamic_sections # 0 =>
           EndOfLastRange(dynamic_section_offsets) = end_of_dynamic_sections
    /\ (NonEmpty /\ cache_status = "Invalidated") => NewData.ok /\ SlotInside(NewData.data)
    /\ (NonEmpty /\ cache_status = "Fresh") => SlotInside(heap[CacheBlock])

\* an image copied from a Fresh cache after a static section displaced
\* another and left a registry of one range for two accepted sections
C20_Witness ==
    /\ Returned /\ last.res = "Cached"
    /\ Cardinality(StaticIds) = 2 /\ Cardinality(static_section_offsets) = 1

\* an image rebuilt from a static registry that starts with a gap
C20_PaddingWitness ==
    /\ Returned /\ last.res = "Rebuilt"
    /\ static_section_offsets # {} /\ ~ContainsKey(static_section_offsets, 0)

====
